---- MODULE Spec2Model ----
(***************************************************************************)
(* A model of src/ecs.rs of bevy_mod_debug_console: the read-only queries  *)
(* over a snapshot of bevy's Components, Archetypes and Entities, and the  *)
(* dispatch of a parsed command line to them.                              *)
(*                                                                         *)
(* A String is a sequence of one-character strings.  An Option is a       *)
(* sequence of length 0 (None) or 1 (Some).  Every text a function writes  *)
(* is a record: "kind" names the heading or message the text starts with, *)
(* the other fields hold the values written after it, in order.           *)
(***************************************************************************)
EXTENDS Integers, Sequences, FiniteSets, TLC

VARIABLES components, archetypes, entities, op, arg, out

vars == <<components, archetypes, entities, op, arg, out>>

\* ------------------------------------------------------------------ bounds
MaxComponents == 2      \* Components::len() is at most MaxComponents + 1
MaxArchetypes == 2      \* Archetypes::len() is at most MaxArchetypes
MaxEntities   == 2      \* entity ids are below MaxEntities

\* ----------------------------------------------------------------- strings
\* The byte value of the characters the names and values are written in.
Ord(ch) == CASE ch = "0" -> 48 [] ch = "1" -> 49 [] ch = "2" -> 50
             [] ch = "3" -> 51 [] ch = "4" -> 52 [] ch = "5" -> 53
             [] ch = "6" -> 54 [] ch = "7" -> 55 [] ch = "8" -> 56
             [] ch = "9" -> 57 [] ch = ":" -> 58 [] ch = "P" -> 80
             [] ch = "V" -> 86 [] ch = "g" -> 103 [] OTHER -> 255

\* String's Ord: byte-wise lexicographic, a proper prefix first.
RECURSIVE str_lt(_, _)
str_lt(s, t) ==
    IF t = <<>> THEN FALSE
    ELSE IF s = <<>> THEN TRUE
    ELSE IF Ord(Head(s)) /= Ord(Head(t)) THEN Ord(Head(s)) < Ord(Head(t))
    ELSE str_lt(Tail(s), Tail(t))

\* str::contains(pattern): pattern occurs as a contiguous run of characters.
contains(name, filter) ==
    \E i \in 0..(Len(name) - Len(filter)) :
        SubSeq(name, i + 1, i + Len(filter)) = filter

\* bevy::utils::get_short_name on a path without generic or tuple
\* punctuation: the part after the last ':'.
get_short_name(name) ==
    LET colons == {i \in 1..Len(name) : name[i] = ":"}
    IN  IF colons = {} THEN name
        ELSE SubSeq(name, (CHOOSE i \in colons : \A j \in colons : j <= i) + 1,
                    Len(name))

\* ---------------------------------------------------------------- snapshot
StorageType == {"Table", "SparseSet"}

\* Components::len(): the length of the vector of ComponentInfo.
components_len(c) == Len(c)

\* Components::get_info(ComponentId::new(id)): the info at index id.
get_info(c, id) == IF id >= 0 /\ id < Len(c) THEN <<c[id + 1]>> ELSE <<>>

\* ArchetypeId::RESOURCE, the index Archetypes::resource() reads.
RESOURCE == 1

resource(a) == a[RESOURCE + 1]

\* An archetype that owns only its table components (a mutation).
table_only_components(archetype) == archetype.table_components

\* Archetype::components(): table components chained with sparse set ones.
archetype_components(archetype) ==
    archetype.table_components \cup archetype.sparse_set_components

\* EntityLocation.archetype_id of a freed entity (ArchetypeId::INVALID).
INVALID == 0 - 1

\* Entities::len(): the count of currently allocated entities.
entities_len(e) == e.len

\* Entities::resolve_from_id(id): Some for an index inside the meta list.
resolve_from_id(e, id) == IF id < Len(e.meta) THEN <<id>> ELSE <<>>

\* Entities::get(entity): the location of a live entity.
entities_get(e, entity) ==
    IF entity < Len(e.meta) /\ e.meta[entity + 1] /= INVALID
    THEN <<e.meta[entity + 1]>> ELSE <<>>

\* ----------------------------------------------------------------- queries
\* The loop of get_components_by_name from index id on: one (id, name) per
\* index that has an info, the name shortened when short is set.
RECURSIVE names_from(_, _, _)
names_from(c, short, id) ==
    IF id >= components_len(c) THEN <<>>
    ELSE LET info == get_info(c, id)
             item == IF info = <<>> THEN <<>>
                     ELSE IF short THEN << <<id, get_short_name(info[1].name)>> >>
                     ELSE << <<id, info[1].name>> >>
         IN  item \o names_from(c, short, id + 1)

\* get_components_by_name with the loop started at index 0 (a mutation).
get_components_by_name_from_0(c, short, filter) ==
    LET names == names_from(c, short, 0)
    IN  IF filter /= <<>>
        THEN SelectSeq(names, LAMBDA p : contains(p[2], filter[1]))
        ELSE names

get_components_by_name(c, short, filter) ==
    LET names == names_from(c, short, 1)
    IN  IF filter /= <<>>
        THEN SelectSeq(names, LAMBDA p : contains(p[2], filter[1]))
        ELSE names

\* The order of (usize, String): by id, then by name.
pair_lt(p, q) == p[1] < q[1] \/ (p[1] = q[1] /\ str_lt(p[2], q[2]))

\* Vec<(usize, String)>::sort: a stable sort by pair_lt.
sort_pairs(s) ==
    LET pos(i) == Cardinality({j \in 1..Len(s) :
                     pair_lt(s[j], s[i]) \/ (~pair_lt(s[i], s[j]) /\ j < i)}) + 1
    IN  [p \in 1..Len(s) |-> s[CHOOSE i \in 1..Len(s) : pos(i) = p]]

\* Vec<String>::sort: a stable sort by str_lt.
sort_names(s) ==
    LET pos(i) == Cardinality({j \in 1..Len(s) :
                     str_lt(s[j], s[i]) \/ (~str_lt(s[i], s[j]) /\ j < i)}) + 1
    IN  [p \in 1..Len(s) |-> s[CHOOSE i \in 1..Len(s) : pos(i) = p]]

list_components(c, short, filter) ==
    [kind |-> "[component id] [component name]",
     pairs |-> sort_pairs(get_components_by_name(c, short, filter))]

\* The loop of list_entities from index id on.
RECURSIVE entities_from(_, _)
entities_from(e, id) ==
    IF id >= entities_len(e) THEN <<>>
    ELSE LET entity == resolve_from_id(e, id)
             location == IF entity = <<>> THEN <<>> ELSE entities_get(e, entity[1])
             line == IF location = <<>> THEN <<>> ELSE << <<id, location[1]>> >>
         IN  line \o entities_from(e, id + 1)

list_entities(e) ==
    [kind |-> "[entity index] [archetype id]", pairs |-> entities_from(e, 0)]

list_archetypes(a) ==
    [kind |-> "[id] [entity count]",
     pairs |-> [i \in 1..Len(a) |-> <<a[i].id, Len(a[i].entities)>>]]

print_ecs_counts(a, c, e) ==
    [kind |-> "counts", entities |-> entities_len(e),
     components |-> components_len(c), archetypes |-> Len(a)]

\* The archetypes a.iter() yields that own component_id, in iteration order.
matching_archetypes(a, component_id) ==
    SelectSeq(a, LAMBDA archetype :
                    \E c \in archetype_components(archetype) : c = component_id)

find_archetypes_by_component_id(a, component_id) ==
    LET matched == matching_archetypes(a, component_id)
    IN  [kind |-> "archetype ids:",
         ids |-> [i \in 1..Len(matched) |-> matched[i].id]]

find_archetypes_by_component_name(a, c, component_name) ==
    LET found == get_components_by_name(c, FALSE, <<component_name>>)
    IN  IF found = <<>>
        THEN [kind |-> "No component found with name", name |-> component_name]
        ELSE IF Len(found) > 1
        THEN [kind |-> "More than one component found with name",
              name |-> component_name, pairs |-> found]
        ELSE find_archetypes_by_component_id(a, found[1][1])

\* The last archetype holding the entity instead of the first (a mutation).
get_last_archetype_id_by_entity_id(a, entity_id) ==
    LET owners == SelectSeq(a, LAMBDA archetype :
                     \E i \in 1..Len(archetype.entities) :
                         archetype.entities[i] = entity_id)
    IN  IF owners = <<>> THEN <<>> ELSE <<owners[Len(owners)].id>>

get_archetype_id_by_entity_id(a, entity_id) ==
    LET owners == SelectSeq(a, LAMBDA archetype :
                     \E i \in 1..Len(archetype.entities) :
                         archetype.entities[i] = entity_id)
    IN  IF owners = <<>> THEN <<>> ELSE <<Head(owners).id>>

find_archetype_by_entity_id(a, entity_id) ==
    [kind |-> "archetype id:", ids |-> get_archetype_id_by_entity_id(a, entity_id)]

\* flat_map(|archetype| archetype.entities()) over a sequence of archetypes.
RECURSIVE flat_entities(_)
flat_entities(as) ==
    IF as = <<>> THEN <<>> ELSE Head(as).entities \o flat_entities(Tail(as))

\* The entities of every archetype, the filter left out (a mutation).
find_entities_of_all_archetypes(a, component_id) ==
    LET found == flat_entities(a)
    IN  IF Len(found) = 0 THEN [kind |-> "no entites found", ids |-> <<>>]
        ELSE [kind |-> "entity ids:", ids |-> found]

find_entities_by_component_id(a, component_id) ==
    LET found == flat_entities(matching_archetypes(a, component_id))
    IN  IF Len(found) = 0 THEN [kind |-> "no entites found", ids |-> <<>>]
        ELSE [kind |-> "entity ids:", ids |-> found]

find_entities_by_component_name(a, c, component_name) ==
    LET found == get_components_by_name(c, FALSE, <<component_name>>)
    IN  [kind |-> "sections",
         sections |-> [i \in 1..Len(found) |->
                         [name |-> found[i][2],
                          body |-> find_entities_by_component_id(a, found[i][1])]]]

\* The (id, short name) of each component id in ids.
named(c, ids) == {<<id, get_short_name(get_info(c, id)[1].name)>> : id \in ids}

print_archetype(a, c, archetype_id) ==
    IF archetype_id >= 0 /\ archetype_id < Len(a)
    THEN LET archetype == a[archetype_id + 1]
         IN  [kind |-> "id:", id |-> archetype.id,
              entities |-> archetype.entities,
              table_components |-> named(c, archetype.table_components),
              sparse_set_components |-> named(c, archetype.sparse_set_components)]
    ELSE [kind |-> "No archetype found with id:", id |-> archetype_id]

print_component(c, component_id) ==
    LET info == get_info(c, component_id)
    IN  IF info /= <<>>
        THEN [kind |-> "Name:", name |-> info[1].name, id |-> component_id,
              storage |-> info[1].storage]
        ELSE [kind |-> "No component found with id:", id |-> component_id]

print_component_by_name(c, component_name) ==
    LET found == get_components_by_name(c, FALSE, <<component_name>>)
    IN  [kind |-> "components",
         sections |-> [i \in 1..Len(found) |-> print_component(c, found[i][1])]]

\* The short names of a set of component ids, as a sequence in any order.
RECURSIVE short_names(_, _)
short_names(c, ids) ==
    IF ids = {} THEN <<>>
    ELSE LET id == CHOOSE x \in ids : TRUE
         IN  <<get_short_name(get_info(c, id)[1].name)>>
                 \o short_names(c, ids \ {id})

list_resources(a, c) ==
    [kind |-> "[resource name]",
     names |-> sort_names(short_names(c, archetype_components(resource(a))))]

\* ---------------------------------------------------------- command line
ArgNames == {"id", "componentid", "componentname", "entityid", "name",
             "filter", "long"}
\* The values given to the arguments: numbers and names.
Values == {<<"0">>, <<"1">>, <<"P">>, <<"g">>}
NoArgs == [n \in ArgNames |-> <<>>]
\* The ArgMatches of a subcommand path with the given arguments.
Matches(cmd, sub, args) == [cmd |-> cmd, sub |-> sub, args |-> args]
\* Exactly one argument of a required group, with any value.
OneOf(group) == {[NoArgs EXCEPT ![n] = <<v>>] : n \in group, v \in Values}

\* The command lines the App of build_commands accepts (an alias is reported
\* under the name of its subcommand), and the line without a subcommand.
build_commands ==
    {Matches("", "", NoArgs), Matches("counts", "", NoArgs),
     Matches("archetypes", "list", NoArgs), Matches("entities", "list", NoArgs),
     Matches("resources", "list", NoArgs)}
    \cup {Matches("archetypes", "info", args) : args \in OneOf({"id"})}
    \cup {Matches("archetypes", "find", args) :
             args \in OneOf({"componentid", "componentname", "entityid"})}
    \cup {Matches("components", "list",
                  [NoArgs EXCEPT !["filter"] = f, !["long"] = l]) :
             f \in {<<>>} \cup {<<v>> : v \in Values}, l \in {<<>>, << <<>> >>}}
    \cup {Matches("components", "info", args) : args \in OneOf({"id", "name"})}
    \cup {Matches("entities", "find", args) :
             args \in OneOf({"componentid", "componentname"})}

IsDigit(ch) == Ord(ch) >= 48 /\ Ord(ch) <= 57

\* The number a string of digits writes, read from its first digit on.
RECURSIVE digits_value(_, _)
digits_value(v, acc) ==
    IF v = <<>> THEN acc
    ELSE digits_value(Tail(v), acc * 10 + (Ord(Head(v)) - 48))

\* ArgMatches::value_of(name): the value given, if any.
value_of(m, name) == m.args[name]

\* ArgMatches::value_of_t(name) as an unsigned integer: an error when the
\* argument is absent or its value is not a number.
value_of_t(m, name) ==
    LET v == value_of(m, name)
    IN  IF v /= <<>> /\ v[1] /= <<>> /\ \A i \in 1..Len(v[1]) : IsDigit(v[1][i])
        THEN <<digits_value(v[1], 0)>>
        ELSE <<>>

is_present(m, name) == m.args[name] /= <<>>

NotHittable == [kind |-> "this line should not be hittable"]

match_commands(m, a, c, e) ==
    CASE m.cmd = "archetypes" ->
           (CASE m.sub = "list" -> list_archetypes(a)
              [] m.sub = "find" ->
                   IF value_of_t(m, "componentid") /= <<>>
                   THEN find_archetypes_by_component_id(
                            a, value_of_t(m, "componentid")[1])
                   ELSE IF value_of(m, "componentname") /= <<>>
                   THEN find_archetypes_by_component_name(
                            a, c, value_of(m, "componentname")[1])
                   ELSE IF value_of_t(m, "entityid") /= <<>>
                   THEN find_archetype_by_entity_id(
                            a, value_of_t(m, "entityid")[1])
                   ELSE NotHittable
              [] m.sub = "info" ->
                   IF value_of_t(m, "id") /= <<>>
                   THEN print_archetype(a, c, value_of_t(m, "id")[1])
                   ELSE NotHittable
              [] OTHER -> NotHittable)
      [] m.cmd = "components" ->
           (CASE m.sub = "list" ->
                   list_components(c, ~is_present(m, "long"),
                                   value_of(m, "filter"))
              [] m.sub = "info" ->
                   IF value_of_t(m, "id") /= <<>>
                   THEN print_component(c, value_of_t(m, "id")[1])
                   ELSE IF value_of(m, "name") /= <<>>
                   THEN print_component_by_name(c, value_of(m, "name")[1])
                   ELSE NotHittable
              [] OTHER -> NotHittable)
      [] m.cmd = "entities" ->
           (CASE m.sub = "list" -> list_entities(e)
              [] m.sub = "find" ->
                   IF value_of_t(m, "componentid") /= <<>>
                   THEN find_entities_by_component_id(
                            a, value_of_t(m, "componentid")[1])
                   ELSE IF value_of(m, "componentname") /= <<>>
                   THEN find_entities_by_component_name(
                            a, c, value_of(m, "componentname")[1])
                   ELSE NotHittable
              [] OTHER -> NotHittable)
      [] m.cmd = "resources" ->
           (CASE m.sub = "list" -> list_resources(a, c)
              [] OTHER -> NotHittable)
      [] m.cmd = "counts" -> print_ecs_counts(a, c, e)
      [] OTHER -> [kind |-> ""]

\* ------------------------------------------------------- snapshots (inputs)
PoolSeq == << <<"P">>, <<"g", ":", ":", "P">>, <<"V">> >>
NamePool == {PoolSeq[i] : i \in 1..Len(PoolSeq)}
\* The names a query is made with: the pool and a part of a pooled name.
Patterns == NamePool \cup {<<"g">>}

ComponentIds == 0..(MaxComponents + 1)
EntityIds == 0..MaxEntities
ComponentInfo == [name : NamePool, storage : StorageType]

\* Every catalog of at most MaxComponents + 1 components (index 0 included).
AllCatalogs == UNION {[1..n -> ComponentInfo] : n \in 0..(MaxComponents + 1)}
\* Table storage at the even indexes, sparse set storage at the odd ones.
AlternatingStorage(c) ==
    \A i \in 1..Len(c) :
        c[i].storage = (IF i % 2 = 1 THEN "Table" ELSE "SparseSet")
NameCatalogs == {c \in AllCatalogs : AlternatingStorage(c)}
\* One catalog per length, its names taken from the pool in turn.
FixedCatalogs ==
    {[i \in 1..n |-> [name |-> PoolSeq[((i - 1) % Len(PoolSeq)) + 1],
                       storage |-> IF i % 2 = 1 THEN "Table" ELSE "SparseSet"]]
        : n \in 0..(MaxComponents + 1)}

ArchetypeCounts == (RESOURCE + 1)..MaxArchetypes
\* The component set of each of n archetypes.
ComponentSets(c, n) == [1..n -> SUBSET (0..(Len(c) - 1))]
\* Component sets of at most one component each.
SingletonSets(c, n) ==
    [1..n -> {{}} \cup {{x} : x \in 0..(Len(c) - 1)}]
\* The meta list of Entities: per index the owning archetype or INVALID.
Layouts(n) == UNION {[1..m -> (0..(n - 1)) \cup {INVALID}] : m \in 0..MaxEntities}
Members(meta, id) == {i \in 0..(Len(meta) - 1) : meta[i + 1] = id}
Orders(S) == {s \in [1..Cardinality(S) -> S] :
                 \A i, j \in 1..Cardinality(S) : i /= j => s[i] /= s[j]}
\* The storage order of the entities of each of n archetypes.
EntityOrders(meta, n) ==
    {o \in [1..n -> UNION {Orders(Members(meta, a - 1)) : a \in 1..n}] :
        \A a \in 1..n : o[a] \in Orders(Members(meta, a - 1))}
MakeArchetype(c, id, cs, ents) ==
    [id |-> id,
     table_components |-> {x \in cs : c[x + 1].storage = "Table"},
     sparse_set_components |-> {x \in cs : c[x + 1].storage = "SparseSet"},
     entities |-> ents]

MakeEntities(meta) ==
    [meta |-> meta,
     len |-> Cardinality({i \in 1..Len(meta) : meta[i] /= INVALID})]

NoArg == [id |-> 0, name |-> <<>>, short |-> FALSE, filter |-> <<>>,
          matches |-> Matches("", "", NoArgs)]
NoOut == [kind |-> "none"]

\* The snapshot the host hands over: catalog c, component sets cs, meta
\* list meta and storage orders o; no query made yet.
Snapshot(c, cs, meta, o) ==
    /\ components = c
    /\ archetypes = [a \in 1..Len(cs) |-> MakeArchetype(c, a - 1, cs[a], o[a])]
    /\ entities = MakeEntities(meta)
    /\ op = "snapshot"
    /\ arg = NoArg
    /\ out = NoOut

snapshot == <<components, archetypes, entities>>

\* ------------------------------------------------------ component searches
\* Archetypes with any component sets; no entity spawned yet.
Init ==
    \E n \in ArchetypeCounts : \E c \in FixedCatalogs :
    \E cs \in ComponentSets(c, n) :
        Snapshot(c, cs, <<>>, [a \in 1..n |-> <<>>])

FindArchetypesByComponentId ==
    \E id \in ComponentIds :
        /\ op' = "find_archetypes_by_component_id"
        /\ arg' = [NoArg EXCEPT !.id = id]
        /\ out' = find_archetypes_by_component_id(archetypes, id)
        /\ UNCHANGED snapshot

Next == FindArchetypesByComponentId

Spec == Init /\ [][Next]_vars

\* The archetype indexes whose table or sparse set components hold id.
Owners(id) ==
    {i \in 1..Len(archetypes) :
        id \in archetypes[i].table_components
            \/ id \in archetypes[i].sparse_set_components}

StrictlyAscending(s) == \A i, j \in 1..Len(s) : i < j => s[i] < s[j]

\* C1: find_archetypes_by_component_id(c) lists exactly the ids of the
\* archetypes whose table or sparse set components hold c, each once, in
\* ascending archetype id order, for present and absent c alike.
C1_ExactlyTheOwningArchetypes ==
    op = "find_archetypes_by_component_id" =>
        /\ out.kind = "archetype ids:"
        /\ {out.ids[i] : i \in 1..Len(out.ids)} = {i - 1 : i \in Owners(arg.id)}
        /\ StrictlyAscending(out.ids)

\* An archetype is listed for a sparse set component it owns, and an
\* archetype with other components is left out.
C1_Witness ==
    /\ op = "find_archetypes_by_component_id"
    /\ Len(out.ids) >= 1
    /\ \E i \in Owners(arg.id) : arg.id \in archetypes[i].sparse_set_components
    /\ \E i \in 1..Len(archetypes) :
          /\ i \notin Owners(arg.id)
          /\ archetypes[i].table_components /= {}

\* --------------------------------------------------------- entity searches
\* Archetypes of at most one component each, entities live or freed, each
\* live entity in one archetype, in any storage order.
InitEntitySearch ==
    \E n \in ArchetypeCounts : \E meta \in Layouts(n) :
    \E o \in EntityOrders(meta, n) : \E c \in FixedCatalogs :
    \E cs \in SingletonSets(c, n) : Snapshot(c, cs, meta, o)

FindEntitiesByComponentId ==
    \E id \in ComponentIds :
        /\ op' = "find_entities_by_component_id"
        /\ arg' = [NoArg EXCEPT !.id = id]
        /\ out' = find_entities_by_component_id(archetypes, id)
        /\ UNCHANGED snapshot

NextEntitySearch == FindArchetypesByComponentId \/ FindEntitiesByComponentId

SpecEntitySearch == InitEntitySearch /\ [][NextEntitySearch]_vars

RECURSIVE TotalEntities(_)
TotalEntities(S) ==
    IF S = {} THEN 0
    ELSE LET i == CHOOSE x \in S : TRUE
         IN  Len(archetypes[i].entities) + TotalEntities(S \ {i})

\* Where the entities of archetype index i start in the concatenation of the
\* entity sequences of the archetype indexes S, taken in ascending order.
Offset(S, i) == TotalEntities({j \in S : j < i})

\* C2: the entity sequences of the archetypes find_archetypes_by_component_id
\* returns are pairwise disjoint, find_entities_by_component_id is their
\* concatenation in archetype order then storage order, and no entity id is
\* listed twice.
C2_ConcatenationOfDisjointLists ==
    op = "find_entities_by_component_id" =>
        LET ids == find_archetypes_by_component_id(archetypes, arg.id).ids
            S == {ids[k] + 1 : k \in 1..Len(ids)}
        IN  /\ \A i, j \in S : i /= j =>
                  \A k \in 1..Len(archetypes[i].entities) :
                  \A l \in 1..Len(archetypes[j].entities) :
                      archetypes[i].entities[k] /= archetypes[j].entities[l]
            /\ Len(out.ids) = TotalEntities(S)
            /\ \A i \in S : \A k \in 1..Len(archetypes[i].entities) :
                  out.ids[Offset(S, i) + k] = archetypes[i].entities[k]
            /\ \A k, l \in 1..Len(out.ids) : k /= l => out.ids[k] /= out.ids[l]
            /\ out.kind = (IF TotalEntities(S) = 0 THEN "no entites found"
                           ELSE "entity ids:")

\* Two archetypes with entities own the component and the entity ids come
\* out in storage order, not sorted.
C2_Witness ==
    /\ op = "find_entities_by_component_id"
    /\ Cardinality({i \in Owners(arg.id) : archetypes[i].entities /= <<>>}) >= 2
    /\ Len(out.ids) >= 2
    /\ out.ids[1] > out.ids[2]

\* ----------------------------------------------------------------- catalog
\* Any catalog; the two archetypes bevy starts with, no component in them,
\* no entity spawned yet.
InitCatalog ==
    \E c \in AllCatalogs :
        Snapshot(c, [a \in 1..(RESOURCE + 1) |-> {}], <<>>,
                 [a \in 1..(RESOURCE + 1) |-> <<>>])

Filters == {<<>>} \cup {<<p>> : p \in Patterns}

PrintComponent ==
    \E id \in ComponentIds :
        /\ op' = "print_component"
        /\ arg' = [NoArg EXCEPT !.id = id]
        /\ out' = print_component(components, id)
        /\ UNCHANGED snapshot

ListComponents ==
    \E short \in BOOLEAN : \E filter \in Filters :
        /\ op' = "list_components"
        /\ arg' = [NoArg EXCEPT !.short = short, !.filter = filter]
        /\ out' = list_components(components, short, filter)
        /\ UNCHANGED snapshot

PrintEcsCounts ==
    /\ op' = "print_ecs_counts"
    /\ arg' = NoArg
    /\ out' = print_ecs_counts(archetypes, components, entities)
    /\ UNCHANGED snapshot

NextCatalog == PrintComponent \/ ListComponents \/ PrintEcsCounts

SpecCatalog == InitCatalog /\ [][NextCatalog]_vars

\* The component ids the catalog enumerates: all but the reserved index 0.
Catalogued == 1..(Len(components) - 1)

\* short is full without its path: no ':' in it, and full is short or ends
\* in ':' followed by short.
IsShortOf(full, short) ==
    /\ \A i \in 1..Len(short) : short[i] /= ":"
    /\ Len(short) <= Len(full)
    /\ SubSeq(full, Len(full) - Len(short) + 1, Len(full)) = short
    /\ Len(short) < Len(full) => full[Len(full) - Len(short)] = ":"

\* The name of component id as a listing in the given mode displays it.
Displayed(id, short, name) ==
    IF short THEN IsShortOf(components[id + 1].name, name)
    ELSE name = components[id + 1].name

\* C8: every catalogued component id is found by print_component, and a
\* listing filtered by its name (short or full, as the listing displays it)
\* includes it; a filtered listing holds all and only the catalogued
\* components whose displayed name contains the pattern, in ascending id
\* order.
C8_LookupAndFilterAgree ==
    /\ (op = "print_component" /\ arg.id \in Catalogued) =>
          /\ out.kind = "Name:"
          /\ out.id = arg.id
          /\ out.name = components[arg.id + 1].name
    /\ (op = "list_components" /\ arg.filter /= <<>>) =>
          /\ \A id \in Catalogued :
                Displayed(id, arg.short, arg.filter[1]) =>
                    \E k \in 1..Len(out.pairs) : out.pairs[k][1] = id
          /\ \A id \in Catalogued :
                (\E k \in 1..Len(out.pairs) : out.pairs[k][1] = id)
                    <=> \E name \in NamePool \cup {get_short_name(n) : n \in NamePool} :
                           /\ Displayed(id, arg.short, name)
                           /\ contains(name, arg.filter[1])
          /\ \A k \in 1..Len(out.pairs) :
                /\ out.pairs[k][1] \in Catalogued
                /\ Displayed(out.pairs[k][1], arg.short, out.pairs[k][2])
          /\ \A k, l \in 1..Len(out.pairs) :
                k < l => out.pairs[k][1] < out.pairs[l][1]

\* A short listing filtered by the short name two components share, one of
\* them under a path, lists both and not the component at index 0.
C8_Witness ==
    /\ op = "list_components"
    /\ arg.short
    /\ arg.filter = << <<"P">> >>
    /\ Len(out.pairs) = 2
    /\ components[1].name = <<"P">>
    /\ \E k \in 1..2 : Len(components[out.pairs[k][1] + 1].name) > 1

\* C7: print_component(id) finds a component exactly when id is catalogued:
\* for index 0 and for an absent id it reports that no component was found.
C7_SentinelAndAbsentNotFound ==
    op = "print_component" =>
        /\ out.kind = "Name:" <=> arg.id \in Catalogued
        /\ out.kind = "No component found with id:" <=> arg.id \notin Catalogued

\* C5: the component count of print_ecs_counts is the number of components
\* the listing enumerates (index 0 not counted).
C5_CountMatchesListing ==
    op = "print_ecs_counts" =>
        out.components = Len(list_components(components, FALSE, <<>>).pairs)

\* ---------------------------------------------------------- name searches
\* One live entity in each of the first archetypes, as many as there are
\* entity ids.
OneEntityEach(n) ==
    [i \in 1..(IF n < MaxEntities THEN n ELSE MaxEntities) |-> i - 1]

\* Any names in the catalog, any component sets, one entity per archetype.
InitName ==
    \E n \in ArchetypeCounts : \E c \in NameCatalogs :
    \E cs \in ComponentSets(c, n) :
    \E o \in EntityOrders(OneEntityEach(n), n) :
        Snapshot(c, cs, OneEntityEach(n), o)

FindArchetypesByComponentName ==
    \E name \in Patterns :
        /\ op' = "find_archetypes_by_component_name"
        /\ arg' = [NoArg EXCEPT !.name = name]
        /\ out' = find_archetypes_by_component_name(archetypes, components, name)
        /\ UNCHANGED snapshot

FindEntitiesByComponentName ==
    \E name \in Patterns :
        /\ op' = "find_entities_by_component_name"
        /\ arg' = [NoArg EXCEPT !.name = name]
        /\ out' = find_entities_by_component_name(archetypes, components, name)
        /\ UNCHANGED snapshot

NextName == FindArchetypesByComponentName \/ FindEntitiesByComponentName

SpecName == InitName /\ [][NextName]_vars

\* The catalogued component ids whose name is exactly name.
NamedExactly(name) == {id \in Catalogued : components[id + 1].name = name}

\* C3: find_archetypes_by_component_name(name) resolves name by equality:
\* no component of that name gives the no-component message, several give
\* the list of exactly those (id, name) pairs, and one gives the result of
\* find_archetypes_by_component_id on its id.
C3_ResolvesByExactName ==
    op = "find_archetypes_by_component_name" =>
        LET eq == NamedExactly(arg.name)
        IN  /\ eq = {} => out.kind = "No component found with name"
            /\ Cardinality(eq) > 1 =>
                  /\ out.kind = "More than one component found with name"
                  /\ {out.pairs[k] : k \in 1..Len(out.pairs)}
                        = {<<id, arg.name>> : id \in eq}
            /\ Cardinality(eq) = 1 =>
                  /\ out.kind = "archetype ids:"
                  /\ out.ids = find_archetypes_by_component_id(
                                   archetypes, CHOOSE id \in eq : TRUE).ids

\* What a name search reports: that no component has the name, that several
\* have it, a result for the one that has it, or nothing at all.
OutcomeKind(result) ==
    CASE result.kind = "No component found with name" -> "NotFound"
      [] result.kind = "More than one component found with name" -> "Ambiguous"
      [] result.kind = "archetype ids:" -> "Resolved"
      [] result.kind = "sections" /\ Len(result.sections) = 0 -> "Nothing"
      [] result.kind = "sections" /\ Len(result.sections) = 1 -> "Resolved"
      [] OTHER -> "Several"

\* C4: find_entities_by_component_name(name) reports the same kind of
\* outcome as find_archetypes_by_component_name(name): not found, ambiguous
\* or resolved, and never nothing for a name no component matches.
C4_SameOutcomeAsArchetypeSearch ==
    op = "find_entities_by_component_name" =>
        OutcomeKind(out) = OutcomeKind(
            find_archetypes_by_component_name(archetypes, components, arg.name))

\* ------------------------------------------------------------ entity index
\* Entities live or freed, each live one in one archetype; no components in
\* the archetypes.
InitEntities ==
    \E n \in ArchetypeCounts : \E meta \in Layouts(n) :
    \E o \in EntityOrders(meta, n) : \E c \in FixedCatalogs :
        Snapshot(c, [a \in 1..n |-> {}], meta, o)

ListEntities ==
    /\ op' = "list_entities"
    /\ arg' = NoArg
    /\ out' = list_entities(entities)
    /\ UNCHANGED snapshot

GetArchetypeIdByEntityId ==
    \E id \in EntityIds :
        /\ op' = "get_archetype_id_by_entity_id"
        /\ arg' = [NoArg EXCEPT !.id = id]
        /\ out' = [kind |-> "Option",
                   ids |-> get_archetype_id_by_entity_id(archetypes, id)]
        /\ UNCHANGED snapshot

FindArchetypeByEntityId ==
    \E id \in EntityIds :
        /\ op' = "find_archetype_by_entity_id"
        /\ arg' = [NoArg EXCEPT !.id = id]
        /\ out' = find_archetype_by_entity_id(archetypes, id)
        /\ UNCHANGED snapshot

NextEntities == ListEntities \/ GetArchetypeIdByEntityId \/ FindArchetypeByEntityId

SpecEntities == InitEntities /\ [][NextEntities]_vars

\* The archetype indexes whose entity sequence holds the entity id.
Holders(id) ==
    {i \in 1..Len(archetypes) :
        \E k \in 1..Len(archetypes[i].entities) : archetypes[i].entities[k] = id}

\* The entity ids some archetype holds.
Live == {id \in EntityIds : Holders(id) /= {}}

\* C6: list_entities lists exactly the live entity ids, each once, in
\* ascending order, each with the archetype id that
\* get_archetype_id_by_entity_id finds for it.
C6_ListingIsTheLiveEntities ==
    op = "list_entities" =>
        /\ {out.pairs[k][1] : k \in 1..Len(out.pairs)} = Live
        /\ \A k, l \in 1..Len(out.pairs) :
              k < l => out.pairs[k][1] < out.pairs[l][1]
        /\ \A k \in 1..Len(out.pairs) :
              get_archetype_id_by_entity_id(archetypes, out.pairs[k][1])
                  = <<out.pairs[k][2]>>

\* ------------------------------------------------- overlapping archetypes
\* The entity sequences without repetition.
EntitySeqs ==
    UNION {{s \in [1..m -> 0..(MaxEntities - 1)] :
               \A i, j \in 1..m : i /= j => s[i] /= s[j]} : m \in 0..MaxEntities}

\* The first archetype holding each entity id, or INVALID.
FirstHolder(es) ==
    [i \in 1..MaxEntities |->
        LET holders == {a \in 1..Len(es) :
                           \E k \in 1..Len(es[a]) : es[a][k] = i - 1}
        IN  IF holders = {} THEN INVALID
            ELSE (CHOOSE a \in holders : \A b \in holders : a <= b) - 1]

\* Archetypes whose entity sequences need not be disjoint.
InitOverlap ==
    \E n \in ArchetypeCounts : \E es \in [1..n -> EntitySeqs] :
        Snapshot(<<>>, [a \in 1..n |-> {}], FirstHolder(es), es)

NextOverlap == GetArchetypeIdByEntityId \/ FindArchetypeByEntityId

SpecOverlap == InitOverlap /\ [][NextOverlap]_vars

InitCommands ==
    \E n \in ArchetypeCounts : \E c \in FixedCatalogs :
    \E cs \in SingletonSets(c, n) : \E meta \in {<<>>, OneEntityEach(n)} :
    \E o \in EntityOrders(meta, n) : Snapshot(c, cs, meta, o)

MatchCommands ==
    \E m \in build_commands :
        /\ op' = "match_commands"
        /\ arg' = [NoArg EXCEPT !.matches = m]
        /\ out' = match_commands(m, archetypes, components, entities)
        /\ UNCHANGED snapshot

NextCommands == MatchCommands

SpecCommands == InitCommands /\ [][NextCommands]_vars

\* The subcommands with a required group of search parameters.
Searches ==
    {m \in build_commands :
        <<m.cmd, m.sub>> \in {<<"archetypes", "info">>, <<"archetypes", "find">>,
                              <<"components", "info">>, <<"entities", "find">>}}

\* C10: for every accepted command line with one search parameter supplied,
\* whatever its value, match_commands never answers that the line should not
\* be hittable.
C10_FallbackUnreachable ==
    (op = "match_commands" /\ arg.matches \in Searches) =>
        out.kind /= "this line should not be hittable"
====
